---- MODULE Spec2Model ----
(***************************************************************************)
(* msmp: construction of a minimal perfect hash function by row            *)
(* displacement.  The module models generate_hash (src/src/msmp.rs) as a   *)
(* state machine whose steps are the stages of the build: validation of    *)
(* the word list, construction of the TwoDArray, the packing search of     *)
(* OneDPackedArray::new (one step per row taken and per displacement       *)
(* tried), verification, and the emission of HashData; the emitted closure *)
(* can then be called.  Words are sequences of ASCII codes.                *)
(***************************************************************************)
EXTENDS Integers, Sequences, FiniteSets, TLC

VARIABLES
    word_list,              \* WordList.list of the caller
    alg,                    \* the ElcAlgorithm passed to generate_hash
    pc,                     \* position of generate_hash
    result,                 \* Result<HashData, Error> returned by generate_hash
    two_d,                  \* the TwoDArray
    array,                  \* OneDPackedArray.array
    rlt,                    \* OneDPackedArray.rlt
    rlt_wrk,                \* row index -> displacement (BTreeMap)
    unused_array_indices,   \* the unused positions of array (BTreeSet)
    it_index,               \* RowSizeIterator.index
    row_index,              \* the row the packer is placing
    rlt_value,              \* the displacement the packer is trying
    h_calls,                \* number of h1/h2 evaluations of the running build
    run,                    \* 1 for the first build, 2 for the repeated one
    prev_result,            \* the result of the first build
    cls_word,               \* the last word given to the closure
    cls_value               \* what the closure returned for it

vars == << word_list, alg, pc, result, two_d, array, rlt, rlt_wrk,
           unused_array_indices, it_index, row_index, rlt_value, h_calls,
           run, prev_result, cls_word, cls_value >>

(***************************************************************************)
(* Bounds of the model.                                                    *)
(***************************************************************************)
MaxWords == 3          \* longest list of the general family
PackWords == 6         \* longest list of the two-letter (packing) family
PermWords == 4         \* longest list of the permuted family
ElcLen == 4            \* longest word given to h1 and h2 on their own

(***************************************************************************)
(* Generic helpers.                                                        *)
(***************************************************************************)
Range(s) == { s[i] : i \in DOMAIN s }

Min(S) == CHOOSE x \in S : \A y \in S : x <= y

Max(S) == CHOOSE x \in S : \A y \in S : x >= y

\* the elements of a set of integers in ascending order (BTreeSet/BTreeMap
\* iteration order)
RECURSIVE Ascending(_)
Ascending(S) == IF S = {} THEN << >> ELSE << Min(S) >> \o Ascending(S \ {Min(S)})

RECURSIVE Reverse(_)
Reverse(s) == IF s = << >> THEN << >> ELSE Reverse(Tail(s)) \o << Head(s) >>

Take(s, n) == SubSeq(s, 1, IF n < Len(s) THEN n ELSE Len(s))

SeqsUpTo(S, n) == UNION { [1..k -> S] : k \in 0..n }

(***************************************************************************)
(* Error and Result (src/src/error.rs).  The message is kept as its fixed  *)
(* text plus the position and the words formatted into it.                 *)
(***************************************************************************)
Error(kind, text, pos, words) ==
    [ok |-> FALSE, kind |-> kind, text |-> text, pos |-> pos, words |-> words]

Ok(v) == [ok |-> TRUE, val |-> v]

None == [none |-> TRUE]

(***************************************************************************)
(* char predicates and ElcAlgorithm (src/src/elc_algorithm.rs).            *)
(***************************************************************************)
is_ascii_uppercase(c) == c >= 65 /\ c <= 90

is_ascii_alphabetic(c) == (c >= 65 /\ c <= 90) \/ (c >= 97 /\ c <= 122)

ElcAlgorithm_new(elc, num_vals) == [elc |-> elc, num_vals |-> num_vals]

ElcAlgorithm_default == [elc |-> 1, num_vals |-> 26]

\* assert!(c.is_ascii_uppercase()); (c as usize) - ('A' as usize)
char_to_index(c) ==
    IF is_ascii_uppercase(c) THEN Ok(c - 65)
    ELSE Error("panic", "assertion failed: c.is_ascii_uppercase()", c, << >>)

step(self, acc, x) == (acc * self.num_vals) + x

\* .map(char_to_index).fold(0, |acc, x| self.step(acc, x)) over the chars s;
\* the assert of char_to_index ends the fold at the first character that fails it
RECURSIVE fold(_, _, _)
fold(self, s, acc) ==
    IF s = << >> THEN Ok(acc)
    ELSE LET x == char_to_index(Head(s))
         IN  IF ~ x.ok THEN x
             ELSE fold(self, Tail(s), step(self, acc, x.val))

\* char::len_utf8: the bytes of a character in a str
len_utf8(c) == IF c < 128 THEN 1 ELSE IF c < 2048 THEN 2 ELSE IF c < 65536 THEN 3 ELSE 4

\* str::len: the length of a word in bytes
RECURSIVE str_len(_)
str_len(word) == IF word = << >> THEN 0 ELSE len_utf8(Head(word)) + str_len(Tail(word))

\* mutant: every character of the word is checked, not only the first elc
h1_whole_word(self, word) ==
    IF str_len(word) < self.elc
    THEN Error("ElcAlgorithmError", "Expected word length to be greater than or equal to elc", 0, << word >>)
    ELSE IF \A k \in 1..Len(word) : is_ascii_uppercase(word[k])
         THEN fold(self, Take(word, self.elc), 0)
         ELSE Error("ElcAlgorithmError", "Unexpected character(s) encountered", 0, << word >>)

h1(self, word) ==
    IF str_len(word) < self.elc
    THEN Error("ElcAlgorithmError", "Expected word length to be greater than or equal to elc", 0, << word >>)
    ELSE IF \A k \in 1..Len(Take(word, self.elc)) : is_ascii_uppercase(Take(word, self.elc)[k])
         THEN fold(self, Take(word, self.elc), 0)
         ELSE Error("ElcAlgorithmError", "Unexpected character(s) encountered", 0, << word >>)

\* mutant: the last elc characters are folded front to back, without .rev()
h2_not_reversed(self, word) ==
    IF str_len(word) < self.elc
    THEN Error("ElcAlgorithmError", "Expected word length to be greater than or equal to elc", 0, << word >>)
    ELSE IF \A k \in 1..Len(Take(Reverse(word), self.elc)) :
                is_ascii_uppercase(Take(Reverse(word), self.elc)[k])
         THEN fold(self, Reverse(Take(Reverse(word), self.elc)), 0)
         ELSE Error("ElcAlgorithmError", "Unexpected character(s) encountered", 0, << word >>)

h2(self, word) ==
    IF str_len(word) < self.elc
    THEN Error("ElcAlgorithmError", "Expected word length to be greater than or equal to elc", 0, << word >>)
    ELSE IF \A k \in 1..Len(Take(Reverse(word), self.elc)) :
                is_ascii_uppercase(Take(Reverse(word), self.elc)[k])
         THEN fold(self, Take(Reverse(word), self.elc), 0)
         ELSE Error("ElcAlgorithmError", "Unexpected character(s) encountered", 0, << word >>)

(***************************************************************************)
(* WordList::is_valid (src/src/word_list.rs).                              *)
(***************************************************************************)
\* mutant: the upper-case half of the character check is missing
RECURSIVE is_valid_loop_any_case(_, _, _)
is_valid_loop_any_case(list, i, duplicate_checker) ==
    IF i > Len(list) THEN Ok(<< >>)
    ELSE IF ~ (\A k \in 1..Len(list[i]) : is_ascii_alphabetic(list[i][k]))
         THEN Error("WordListError", "Non ASCII upper case alphabetic word detected at", i, << >>)
         ELSE IF list[i] \in duplicate_checker
              THEN Error("WordListError", "Duplicate word detected", i, << list[i] >>)
              ELSE is_valid_loop_any_case(list, i + 1, duplicate_checker \cup {list[i]})

RECURSIVE is_valid_loop(_, _, _)
is_valid_loop(list, i, duplicate_checker) ==
    IF i > Len(list) THEN Ok(<< >>)
    ELSE IF ~ (\A k \in 1..Len(list[i]) :
                  is_ascii_alphabetic(list[i][k]) /\ is_ascii_uppercase(list[i][k]))
         THEN Error("WordListError", "Non ASCII upper case alphabetic word detected at", i, << >>)
         ELSE IF list[i] \in duplicate_checker
              THEN Error("WordListError", "Duplicate word detected", i, << list[i] >>)
              ELSE is_valid_loop(list, i + 1, duplicate_checker \cup {list[i]})

is_valid(list) ==
    IF list = << >>
    THEN Error("WordListError", "Empty word list.", 0, << >>)
    ELSE is_valid_loop(list, 1, {})

(***************************************************************************)
(* TwoDArray, Row and RowSizeIterator (src/src/two_d_array.rs).            *)
(***************************************************************************)
\* "Calculate the indices that will be used in the 2D array": h1 then h2 of
\* every word in list order, stopping at the first error.  acc is the list
\* of (row, col) pairs so far; evals counts the h1/h2 evaluations made.
RECURSIVE calc_indices(_, _, _, _)
calc_indices(list, hash_algorithm, i, acc) ==
    IF i > Len(list) THEN [res |-> Ok(acc), evals |-> 2 * Len(list)]
    ELSE LET row == h1(hash_algorithm, list[i])
             col == h2(hash_algorithm, list[i])
         IN  IF ~ row.ok THEN [res |-> row, evals |-> 2 * (i - 1) + 1]
             ELSE IF ~ col.ok THEN [res |-> col, evals |-> 2 * i]
             ELSE calc_indices(list, hash_algorithm, i + 1,
                               Append(acc, << row.val, col.val >>))

\* BTreeMap::insert(k, v) on a map kept as a function
map_insert(m, k, v) == [x \in (DOMAIN m) \cup {k} |-> IF x = k THEN v ELSE m[x]]

EmptyMap == [x \in {} |-> 0]

\* mutant: a cell already taken is overwritten without an error
RECURSIVE fill_rows_overwrite(_, _, _, _)
fill_rows_overwrite(list, indices, i, rows) ==
    IF i > Len(indices) THEN Ok(rows)
    ELSE LET r == indices[i][1]
             c == indices[i][2]
             row == IF r \in DOMAIN rows THEN rows[r] ELSE [cols |-> EmptyMap]
         IN  fill_rows_overwrite(list, indices, i + 1,
                                 map_insert(rows, r, [cols |-> map_insert(row.cols, c, i)]))

\* "Fill the 2-D array with values": rows is row index -> Row
RECURSIVE fill_rows(_, _, _, _)
fill_rows(list, indices, i, rows) ==
    IF i > Len(indices) THEN Ok(rows)
    ELSE LET r == indices[i][1]
             c == indices[i][2]
             row == IF r \in DOMAIN rows THEN rows[r] ELSE [cols |-> EmptyMap]
             current_idx == i
         IN  IF c \in DOMAIN row.cols
             THEN Error("TwoDArrayError", "Collision", 0,
                        << list[row.cols[c]], list[current_idx] >>)
             ELSE fill_rows(list, indices, i + 1,
                            map_insert(rows, r, [cols |-> map_insert(row.cols, c, current_idx)]))

\* mutant: the rows are iterated in the order the list first reached them
\* (an insertion-ordered map), not in ascending row index
size_pairs_by_first_word(rows) ==
    LET first(r) == Min({ rows[r].cols[c] : c \in DOMAIN rows[r].cols })
        firsts == Ascending({ first(r) : r \in DOMAIN rows })
        keys == [k \in 1..Len(firsts) |-> CHOOSE r \in DOMAIN rows : first(r) = firsts[k]]
    IN  [k \in 1..Len(keys) |-> << Cardinality(DOMAIN rows[keys[k]].cols), keys[k] >>]

\* the (size, row index) pairs in ascending row index (iteration of the BTreeMap)
size_pairs(rows) ==
    LET keys == Ascending(DOMAIN rows)
    IN  [k \in 1..Len(keys) |-> << Cardinality(DOMAIN rows[keys[k]].cols), keys[k] >>]

\* mutant: the rows are sorted by ascending size
RECURSIVE insert_by_size_ascending(_, _)
insert_by_size_ascending(x, s) ==
    IF s = << >> THEN << x >>
    ELSE IF Head(s)[1] >= x[1] THEN << x >> \o s
    ELSE << Head(s) >> \o insert_by_size_ascending(x, Tail(s))

\* mutant: x is put after the elements of its size, which reverses the rows
\* of equal size
RECURSIVE insert_by_size_after_equal(_, _)
insert_by_size_after_equal(x, s) ==
    IF s = << >> THEN << x >>
    ELSE IF Head(s)[1] < x[1] THEN << x >> \o s
    ELSE << Head(s) >> \o insert_by_size_after_equal(x, Tail(s))

\* insertion of x into a sequence sorted by descending size, before the first
\* element that is not bigger than x
RECURSIVE insert_by_size(_, _)
insert_by_size(x, s) ==
    IF s = << >> THEN << x >>
    ELSE IF Head(s)[1] <= x[1] THEN << x >> \o s
    ELSE << Head(s) >> \o insert_by_size(x, Tail(s))

RECURSIVE stable_sort(_)
stable_sort(v) ==
    IF v = << >> THEN << >> ELSE insert_by_size(Head(v), stable_sort(Tail(v)))

\* slice::sort_by_key(|k| Reverse(k.0)): the orders the sort can leave v in.
\* The sort is stable, so there is exactly one: descending size, elements of
\* equal size in the order they had.
sort_by_key(v) == { stable_sort(v) }

get_col_indices(row) == Ascending(DOMAIN row.cols)

get_col_values(row) ==
    LET indices == get_col_indices(row)
    IN  [k \in 1..Len(indices) |-> row.cols[indices[k]]]

\* TwoDArray::new: the set of results the call can have
TwoDArray_new(list, hash_algorithm) ==
    LET indices == calc_indices(list, hash_algorithm, 1, << >>).res
        filled == fill_rows(list, indices.val, 1, EmptyMap)
    IN  IF ~ indices.ok THEN { indices }
        ELSE IF ~ filled.ok THEN { filled }
        ELSE IF DOMAIN filled.val = {}
        THEN { Error("panic", "called Option::unwrap() on a None value", 0, << >>) }
        ELSE { Ok([rows |-> filled.val,
                   rows_by_size |-> [k \in 1..Len(sorted) |-> sorted[k][2]],
                   num_entries |-> Len(list),
                   num_rows |-> Cardinality(DOMAIN filled.val),
                   last_row_index |-> Max(DOMAIN filled.val)])
               : sorted \in sort_by_key(size_pairs(filled.val)) }

\* TwoDArray::get_row_by_size with a 0-based index
get_row_by_size(self, index) ==
    IF index < Len(self.rows_by_size) /\ self.rows_by_size[index + 1] \in DOMAIN self.rows
    THEN Ok(<< self.rows_by_size[index + 1], self.rows[self.rows_by_size[index + 1]] >>)
    ELSE None

(***************************************************************************)
(* Rlt (src/src/rlt.rs).  table is 1-based here: table[r + 1] is entry r.  *)
(***************************************************************************)
Rlt_new(size) == [table |-> [k \in 1..size |-> 0], num_words |-> 0]

Rlt_get(self, index) ==
    IF index < Len(self.table) THEN Ok(self.table[index + 1]) ELSE None

\* self.table[index] = value: the Rlt after the call, or the panic of the
\* bounds check when index is outside the table
Rlt_insert(self, index, value) ==
    IF index < Len(self.table)
    THEN [self EXCEPT !.table = [@ EXCEPT ![index + 1] = value]]
    ELSE Error("panic", "index out of bounds", index, << >>)

set_num_entries(self, num_words) == [self EXCEPT !.num_words = num_words]

get_num_entries(self) == self.num_words

\* format!("{x}") of an integer: its decimal digits, most significant first
RECURSIVE digits(_)
digits(n) ==
    IF n < 10 THEN << n >> ELSE digits(n \div 10) \o << n % 10 >>

format_int(x) ==
    LET d == digits(IF x < 0 THEN 0 - x ELSE x)
        ch == [k \in 1..Len(d) |-> << "0", "1", "2", "3", "4", "5", "6", "7", "8", "9" >>[d[k] + 1]]
    IN  IF x < 0 THEN << "-" >> \o ch ELSE ch

\* .join(", ")
RECURSIVE join(_)
join(parts) ==
    IF parts = << >> THEN << >>
    ELSE IF Len(parts) = 1 THEN parts[1]
    ELSE parts[1] \o << ",", " " >> \o join(Tail(parts))

get_as_text(self) == join([k \in 1..Len(self.table) |-> format_int(self.table[k])])

(***************************************************************************)
(* OneDPackedArray (src/src/one_d_packed_array.rs).                        *)
(***************************************************************************)
\* the % of Rust on isize: the remainder has the sign of the dividend
rust_rem(a, n) == IF a >= 0 THEN a % n ELSE 0 - ((0 - a) % n)

adjust_index(index, adj, num_entries) ==
    LET adj_index == rust_rem(index + adj, num_entries)
    IN  IF adj_index >= 0 THEN Ok(adj_index)
        ELSE Error("panic", "Unexpected negative adjusted index", adj_index, << >>)

\* mutant: the search starts at the first unused position, forgetting the seed
first_rlt_value_no_seed(rlt_seed, first_array_unused_index) == first_array_unused_index

\* mutant: the search starts one position before the first unused position
first_rlt_value_one_before(rlt_seed, first_array_unused_index) ==
    (0 - rlt_seed) + first_array_unused_index - 1

\* let mut rlt_value = -rlt_seed + first_array_unused_index
first_rlt_value(rlt_seed, first_array_unused_index) ==
    (0 - rlt_seed) + first_array_unused_index

\* for (v, adj_i) in zip(col_values, adj_col_indices) { array[adj_i] = v }
RECURSIVE write_values(_, _, _, _)
write_values(arr, col_values, adj_col_indices, k) ==
    IF k > Len(col_values) \/ k > Len(adj_col_indices) THEN arr
    ELSE write_values([arr EXCEPT ![adj_col_indices[k] + 1] = col_values[k]],
                      col_values, adj_col_indices, k + 1)

\* mutant: the targets are not checked against the unused positions
not_inserted_unchecked(self_array, unused, row, value) ==
    LET col_indices == get_col_indices(row)
        adjusted == [k \in 1..Len(col_indices) |->
                        adjust_index(col_indices[k], value, Len(self_array))]
        adj_col_indices == Ascending({ adjusted[k].val : k \in 1..Len(col_indices) })
        col_values == get_col_values(row)
    IN  IF \E k \in 1..Len(col_indices) : ~ adjusted[k].ok
        THEN [panic |-> TRUE, returned |-> TRUE, array |-> self_array, unused |-> unused]
        ELSE IF Len(adj_col_indices) # Len(col_indices)
        THEN [panic |-> FALSE, returned |-> TRUE, array |-> self_array, unused |-> unused]
        ELSE [panic |-> FALSE, returned |-> FALSE,
              array |-> write_values(self_array, col_values, adj_col_indices, 1),
              unused |-> unused \ Range(adj_col_indices)]

\* mutant: a target past the end of the array is rejected, not wrapped
not_inserted_no_wrap(self_array, unused, row, value) ==
    LET col_indices == get_col_indices(row)
        adj_col_indices == Ascending({ col_indices[k] + value : k \in 1..Len(col_indices) })
        col_values == get_col_values(row)
    IN  IF \E k \in 1..Len(adj_col_indices) : adj_col_indices[k] \notin unused
        THEN [panic |-> FALSE, returned |-> TRUE, array |-> self_array, unused |-> unused]
        ELSE [panic |-> FALSE, returned |-> FALSE,
              array |-> write_values(self_array, col_values, adj_col_indices, 1),
              unused |-> unused \ Range(adj_col_indices)]

\* mutant: each target is taken as it is checked, so the targets before the
\* first occupied one are written although the displacement is rejected
not_inserted_eager(self_array, unused, row, value) ==
    LET col_indices == get_col_indices(row)
        adjusted == [k \in 1..Len(col_indices) |->
                        adjust_index(col_indices[k], value, Len(self_array))]
        adj_col_indices == Ascending({ adjusted[k].val : k \in 1..Len(col_indices) })
        col_values == get_col_values(row)
        occupied == { k \in 1..Len(adj_col_indices) : adj_col_indices[k] \notin unused }
        taken == IF occupied = {} THEN adj_col_indices
                 ELSE Take(adj_col_indices, Min(occupied) - 1)
    IN  IF \E k \in 1..Len(col_indices) : ~ adjusted[k].ok
        THEN [panic |-> TRUE, returned |-> TRUE, array |-> self_array, unused |-> unused]
        ELSE IF Len(adj_col_indices) # Len(col_indices)
        THEN [panic |-> FALSE, returned |-> TRUE, array |-> self_array, unused |-> unused]
        ELSE [panic |-> FALSE, returned |-> occupied # {},
              array |-> write_values(self_array, col_values, taken, 1),
              unused |-> unused \ Range(taken)]

\* mutant: the targets of an accepted displacement stay in the unused set
not_inserted_keeps_unused(self_array, unused, row, value) ==
    LET col_indices == get_col_indices(row)
        adjusted == [k \in 1..Len(col_indices) |->
                        adjust_index(col_indices[k], value, Len(self_array))]
        adj_col_indices == Ascending({ adjusted[k].val : k \in 1..Len(col_indices) })
        col_values == get_col_values(row)
    IN  IF \E k \in 1..Len(col_indices) : ~ adjusted[k].ok
        THEN [panic |-> TRUE, returned |-> TRUE, array |-> self_array, unused |-> unused]
        ELSE IF Len(adj_col_indices) # Len(col_indices)
        THEN [panic |-> FALSE, returned |-> TRUE, array |-> self_array, unused |-> unused]
        ELSE IF \E k \in 1..Len(adj_col_indices) : adj_col_indices[k] \notin unused
        THEN [panic |-> FALSE, returned |-> TRUE, array |-> self_array, unused |-> unused]
        ELSE [panic |-> FALSE, returned |-> FALSE,
              array |-> write_values(self_array, col_values, adj_col_indices, 1),
              unused |-> unused]

\* not_inserted(&mut self, unused_array_indices, row, rlt_value): the value
\* returned, with self.array and unused_array_indices as the call leaves them
not_inserted(self_array, unused, row, value) ==
    LET col_indices == get_col_indices(row)
        adjusted == [k \in 1..Len(col_indices) |->
                        adjust_index(col_indices[k], value, Len(self_array))]
        \* .collect::<BTreeSet<_>>().into_iter().collect(): ascending, no repeats
        adj_col_indices == Ascending({ adjusted[k].val : k \in 1..Len(col_indices) })
        col_values == get_col_values(row)
    IN  IF \E k \in 1..Len(col_indices) : ~ adjusted[k].ok
        THEN [panic |-> TRUE, returned |-> TRUE, array |-> self_array, unused |-> unused]
        ELSE IF Len(adj_col_indices) # Len(col_indices)
        THEN [panic |-> FALSE, returned |-> TRUE, array |-> self_array, unused |-> unused]
        ELSE IF \E k \in 1..Len(adj_col_indices) : adj_col_indices[k] \notin unused
        THEN [panic |-> FALSE, returned |-> TRUE, array |-> self_array, unused |-> unused]
        ELSE [panic |-> FALSE, returned |-> FALSE,
              array |-> write_values(self_array, col_values, adj_col_indices, 1),
              unused |-> unused \ Range(adj_col_indices)]

(***************************************************************************)
(* hash, text and verify (src/src/msmp.rs).                                *)
(***************************************************************************)
unwrap_or(r, d) == IF "ok" \in DOMAIN r /\ r.ok THEN r.val ELSE d

\* mutant: a row index outside the table reads the last entry, not 0
hash_clamped_row(word, table, hash_algorithm) ==
    LET hashed_row == unwrap_or(h1(hash_algorithm, word), 0)
        hashed_col == unwrap_or(h2(hash_algorithm, word), 0)
        rlt_val == unwrap_or(Rlt_get(table, hashed_row), table.table[Len(table.table)])
        sum == rlt_val + hashed_col
        tmp == IF sum >= 0 THEN sum ELSE 0
    IN  tmp % get_num_entries(table)

\* mutant: the sum is not reduced modulo the number of entries
hash_not_reduced(word, table, hash_algorithm) ==
    LET hashed_row == unwrap_or(h1(hash_algorithm, word), 0)
        hashed_col == unwrap_or(h2(hash_algorithm, word), 0)
        rlt_val == unwrap_or(Rlt_get(table, hashed_row), 0)
        sum == rlt_val + hashed_col
    IN  IF sum >= 0 THEN sum ELSE 0

hash(word, table, hash_algorithm) ==
    LET hashed_row == unwrap_or(h1(hash_algorithm, word), 0)
        hashed_col == unwrap_or(h2(hash_algorithm, word), 0)
        rlt_val == unwrap_or(Rlt_get(table, hashed_row), 0)
        sum == rlt_val + hashed_col
        tmp == IF sum >= 0 THEN sum ELSE 0
    IN  tmp % get_num_entries(table)

\* ElcAlgorithm's h1_as_text and h2_as_text: the trait declares them
\* (msmp.rs:61 and :67) and text calls them, but no implementation is in the
\* source at hand.  The specification fixes that each is a stable pseudo-code
\* text of the computation, the right-hand side of an assignment, and gives the
\* texts of the default algorithm; for a longer window the text here names the
\* window and the radix.
h1_as_text(self) ==
    IF self.elc = 1 THEN << "ord(word[0]) - ord('A')" >>
    ELSE << "fold(word[0..elc], elc = " >> \o format_int(self.elc)
            \o << ", num_vals = " >> \o format_int(self.num_vals) \o << ")" >>

h2_as_text(self) ==
    IF self.elc = 1 THEN << "ord(word[len-1]) - ord('A')" >>
    ELSE << "fold(rev(word)[0..elc], elc = " >> \o format_int(self.elc)
            \o << ", num_vals = " >> \o format_int(self.num_vals) \o << ")" >>

\* the format! of text: the four lines of as_string (the table, row_index,
\* col_index, hash_value with the modulus), each ended by a newline, as the
\* pieces of the text in order
text(table, hash_algorithm) ==
    << "row_lookup_table = [" >> \o get_as_text(table) \o << "]", "\n" >>
    \o << "row_index = " >> \o h1_as_text(hash_algorithm) \o << "\n" >>
    \o << "col_index = " >> \o h2_as_text(hash_algorithm) \o << "\n" >>
    \o << "hash_value = (row_lookup_table[row_index] + col_index) % " >>
    \o format_int(get_num_entries(table)) \o << "\n" >>

\* mutant: a result already seen is inserted again without an error
RECURSIVE verify_collect_no_check(_, _, _, _, _)
verify_collect_no_check(list, table, hash_algorithm, i, hash_results) ==
    IF i > Len(list) THEN Ok(hash_results)
    ELSE verify_collect_no_check(list, table, hash_algorithm, i + 1,
                                 hash_results \cup {hash(list[i], table, hash_algorithm)})

\* the first loop of verify: a result already seen is a collision
RECURSIVE verify_collect(_, _, _, _, _)
verify_collect(list, table, hash_algorithm, i, hash_results) ==
    IF i > Len(list) THEN Ok(hash_results)
    ELSE LET hash_result == hash(list[i], table, hash_algorithm)
         IN  IF hash_result \in hash_results
             THEN Error("HashError", "Collision detected while verifying the hash.", 0, << >>)
             ELSE verify_collect(list, table, hash_algorithm, i + 1,
                                 hash_results \cup {hash_result})

\* the second loop: the results in ascending order against their index
RECURSIVE verify_gaps(_, _, _)
verify_gaps(sorted_results, i, len) ==
    IF i >= Len(sorted_results) THEN Ok(<< >>)
    ELSE IF sorted_results[i + 1] # i
         THEN Error("HashError", "Unexpected gap found in index list.", 0, << >>)
         ELSE IF sorted_results[i + 1] >= len
              THEN Error("HashError", "Hash value is out of range.", 0, << >>)
              ELSE verify_gaps(sorted_results, i + 1, len)

verify(list, table, hash_algorithm) ==
    LET collected == verify_collect(list, table, hash_algorithm, 1, {})
    IN  IF ~ collected.ok THEN collected
        ELSE verify_gaps(Ascending(collected.val), 0, Len(list))

\* mutant: the closure captures the default algorithm, not the one given
HashClosure_new_default_alg(table, hash_algorithm) ==
    [rlt |-> table, alg |-> ElcAlgorithm_default]

\* HashClosure::new(move |a| hash(a, one_d_packed_array.get_rlt(), &hash_algorithm)):
\* the closure owns the packed array's Rlt and the algorithm given to generate_hash
HashClosure_new(table, hash_algorithm) == [rlt |-> table, alg |-> hash_algorithm]

\* (hash.as_closure.cls)(word)
call_closure(cls, word) == hash(word, cls.rlt, cls.alg)

(***************************************************************************)
(* The inputs of the model.  The general family: every list of at most     *)
(* MaxWords words out of SmallWords (blank, lower-case and repeated words  *)
(* included), under the default ElcAlgorithm and under ElcAlgorithm(2, 3). *)
(* The packing family: lists of at most PackWords distinct two-letter      *)
(* words, first letter in PackRows and last letter in PackCols, in         *)
(* ascending order, under the default ElcAlgorithm.                        *)
(***************************************************************************)
SmallWords ==
    { << >>, << 65 >>, << 66 >>, << 97 >>, << 65, 65 >>, << 65, 66 >>,
      << 66, 65 >>, << 65, 97 >> }

Algorithms == { ElcAlgorithm_default, ElcAlgorithm_new(2, 3) }

PackRows == { 65, 66, 67 }

PackCols == { 65, 66, 67, 68 }

CellKey(w) == w[1] * 128 + w[2]

PackLists ==
    LET cells == { << r, c >> : r \in PackRows, c \in PackCols }
        asc(S) == LET keys == Ascending({ CellKey(w) : w \in S })
                  IN  [k \in 1..Len(keys) |-> CHOOSE w \in S : CellKey(w) = keys[k]]
    IN  { asc(S) : S \in { T \in SUBSET cells : Cardinality(T) <= PackWords } }

Inputs ==
    (SeqsUpTo(SmallWords, MaxWords) \X Algorithms)
        \cup (PackLists \X { ElcAlgorithm_default })

\* the words the closure is called with, besides the words of the list
QueryWords == SmallWords \cup { << 97, 65 >>, << 67, 68 >>, << 68, 65 >> }

(***************************************************************************)
(* The state machine.                                                      *)
(***************************************************************************)
FreshBuild ==
    /\ result = None
    /\ two_d = None
    /\ array = << >>
    /\ rlt = Rlt_new(0)
    /\ rlt_wrk = EmptyMap
    /\ unused_array_indices = {}
    /\ it_index = 0
    /\ row_index = 0
    /\ rlt_value = 0
    /\ h_calls = 0
    /\ cls_word = << >>
    /\ cls_value = -1

Init ==
    /\ \E input \in Inputs : word_list = input[1] /\ alg = input[2]
    /\ run = 1
    /\ prev_result = None
    /\ pc = "is_valid"
    /\ FreshBuild

\* mutant: the result of the validation is ignored
Validate_unchecked ==
    /\ pc = "is_valid"
    /\ pc' = "two_d"
    /\ UNCHANGED << word_list, alg, result, two_d, array, rlt, rlt_wrk,
                    unused_array_indices, it_index, row_index, rlt_value, h_calls,
                    run, prev_result, cls_word, cls_value >>

\* generate_hash, msmp.rs:117 and :136: match word_list.is_valid()
Validate ==
    /\ pc = "is_valid"
    /\ LET v == is_valid(word_list)
       IN  IF v.ok
           THEN pc' = "two_d" /\ result' = result
           ELSE pc' = "done" /\ result' = v
    /\ UNCHANGED << word_list, alg, two_d, array, rlt, rlt_wrk, unused_array_indices,
                    it_index, row_index, rlt_value, h_calls, run, prev_result,
                    cls_word, cls_value >>

\* msmp.rs:119: TwoDArray::new(word_list, &hash_algorithm)?
BuildTwoD ==
    /\ pc = "two_d"
    /\ \E t \in TwoDArray_new(word_list, alg) :
          IF t.ok
          THEN pc' = "pack_new" /\ two_d' = t.val /\ result' = result
          ELSE pc' = "done" /\ two_d' = two_d /\ result' = t
    /\ h_calls' = h_calls + calc_indices(word_list, alg, 1, << >>).evals
    /\ UNCHANGED << word_list, alg, array, rlt, rlt_wrk, unused_array_indices,
                    it_index, row_index, rlt_value, run, prev_result,
                    cls_word, cls_value >>

\* OneDPackedArray::new, one_d_packed_array.rs:32-42
PackNew ==
    /\ pc = "pack_new"
    /\ array' = [k \in 1..two_d.num_entries |-> 0]
    /\ rlt' = Rlt_new(two_d.last_row_index + 1)
    /\ rlt_wrk' = EmptyMap
    /\ unused_array_indices' = 0..(two_d.num_entries - 1)
    /\ it_index' = 0
    /\ pc' = "next_biggest"
    /\ UNCHANGED << word_list, alg, result, two_d, row_index, rlt_value, h_calls,
                    run, prev_result, cls_word, cls_value >>

\* one_d_packed_array.rs:43-51 and :74-90: the head of the while-let loop
NextBiggest ==
    /\ pc = "next_biggest"
    /\ LET nb == get_row_by_size(two_d, it_index)
       IN  IF nb = None
           THEN /\ pc' = "materialise"
                /\ UNCHANGED << it_index, row_index, rlt_value, result >>
           ELSE LET col_indices == get_col_indices(nb.val[2])
                IN  /\ it_index' = it_index + 1
                    /\ row_index' = nb.val[1]
                    /\ IF col_indices = << >>
                       THEN pc' = "next_biggest" /\ UNCHANGED << rlt_value, result >>
                       ELSE IF unused_array_indices = {}
                       THEN /\ pc' = "done"
                            /\ result' = Error("OneDPackedArrayError",
                                               "Unexpected no unused index found", 0, << >>)
                            /\ UNCHANGED rlt_value
                       ELSE /\ pc' = "not_inserted"
                            /\ rlt_value' = first_rlt_value(col_indices[1],
                                                            Min(unused_array_indices))
                            /\ UNCHANGED result
    /\ UNCHANGED << word_list, alg, two_d, array, rlt, rlt_wrk, unused_array_indices,
                    h_calls, run, prev_result, cls_word, cls_value >>

\* mutant: the search does not give up when the first column reaches the end
\* of the array
TryInsert_no_limit ==
    /\ pc = "not_inserted"
    /\ LET row == two_d.rows[row_index]
           r == not_inserted(array, unused_array_indices, row, rlt_value)
       IN  /\ array' = r.array
           /\ unused_array_indices' = r.unused
           /\ UNCHANGED result
           /\ IF r.returned
              THEN /\ rlt_value' = rlt_value + 1
                   /\ pc' = "not_inserted"
                   /\ UNCHANGED rlt_wrk
              ELSE /\ rlt_wrk' = map_insert(rlt_wrk, row_index, rlt_value)
                   /\ pc' = "next_biggest"
                   /\ UNCHANGED rlt_value
    /\ UNCHANGED << word_list, alg, two_d, rlt, it_index, row_index, h_calls,
                    run, prev_result, cls_word, cls_value >>

\* one_d_packed_array.rs:55-73: one turn of the inner while loop
TryInsert ==
    /\ pc = "not_inserted"
    /\ LET row == two_d.rows[row_index]
           rlt_seed == get_col_indices(row)[1]
           r == not_inserted(array, unused_array_indices, row, rlt_value)
       IN  /\ array' = r.array
           /\ unused_array_indices' = r.unused
           /\ IF r.panic
              THEN /\ pc' = "done"
                   /\ result' = Error("panic", "Unexpected negative adjusted index", 0, << >>)
                   /\ UNCHANGED << rlt_value, rlt_wrk >>
              ELSE IF r.returned
              THEN /\ rlt_value' = rlt_value + 1
                   /\ UNCHANGED rlt_wrk
                   /\ IF rlt_value + 1 + rlt_seed >= two_d.num_entries
                      THEN /\ pc' = "done"
                           /\ result' = Error("OneDPackedArrayError",
                                              "unable to minimally pack array", 0, << >>)
                      ELSE pc' = "not_inserted" /\ UNCHANGED result
              ELSE /\ rlt_wrk' = map_insert(rlt_wrk, row_index, rlt_value)
                   /\ pc' = "next_biggest"
                   /\ UNCHANGED << rlt_value, result >>
    /\ UNCHANGED << word_list, alg, two_d, rlt, it_index, row_index, h_calls,
                    run, prev_result, cls_word, cls_value >>

\* mutant: the loop over rlt_wrk stops one entry early
RECURSIVE insert_all_but_last(_, _, _)
insert_all_but_last(table, wrk, keys) ==
    IF Len(keys) <= 1 \/ "ok" \in DOMAIN table THEN table
    ELSE insert_all_but_last(Rlt_insert(table, Head(keys), wrk[Head(keys)]), wrk, Tail(keys))

\* for (row_index, rlt_value) in rlt_wrk.iter() { self_.rlt.insert(..) }
RECURSIVE insert_all(_, _, _)
insert_all(table, wrk, keys) ==
    IF keys = << >> \/ "ok" \in DOMAIN table THEN table
    ELSE insert_all(Rlt_insert(table, Head(keys), wrk[Head(keys)]), wrk, Tail(keys))

\* one_d_packed_array.rs:92-99
Materialise ==
    /\ pc = "materialise"
    /\ LET table == insert_all(rlt, rlt_wrk, Ascending(DOMAIN rlt_wrk))
       IN  IF "ok" \in DOMAIN table
           THEN pc' = "done" /\ result' = table /\ rlt' = rlt
           ELSE /\ rlt' = set_num_entries(table, Len(array))
                /\ pc' = "verify"
                /\ result' = result
    /\ UNCHANGED << word_list, alg, two_d, array, rlt_wrk, unused_array_indices,
                    it_index, row_index, rlt_value, h_calls, run, prev_result,
                    cls_word, cls_value >>

\* the words verify hashes: all of them, or up to the first repeated result
verify_hashed(list, table, hash_algorithm) ==
    LET repeats == { i \in 1..Len(list) : \E j \in 1..(i - 1) :
                        hash(list[j], table, hash_algorithm) = hash(list[i], table, hash_algorithm) }
    IN  IF repeats = {} THEN Len(list) ELSE Min(repeats)

\* msmp.rs:127: verify(word_list, one_d_packed_array.get_rlt(), &hash_algorithm)?
Verify ==
    /\ pc = "verify"
    /\ LET v == verify(word_list, rlt, alg)
       IN  IF v.ok
           THEN pc' = "emit" /\ result' = result
           ELSE pc' = "done" /\ result' = v
    /\ h_calls' = h_calls + 2 * verify_hashed(word_list, rlt, alg)
    /\ UNCHANGED << word_list, alg, two_d, array, rlt, rlt_wrk, unused_array_indices,
                    it_index, row_index, rlt_value, run, prev_result,
                    cls_word, cls_value >>

\* msmp.rs:129-134: Ok(HashData { as_string, as_closure })
Emit ==
    /\ pc = "emit"
    /\ result' = Ok([as_string |-> text(rlt, alg), as_closure |-> HashClosure_new(rlt, alg)])
    /\ pc' = "done"
    /\ UNCHANGED << word_list, alg, two_d, array, rlt, rlt_wrk, unused_array_indices,
                    it_index, row_index, rlt_value, h_calls, run, prev_result,
                    cls_word, cls_value >>

\* the first call of the closure of the HashData returned (the closure is a
\* pure function of its captures: a later call repeats an earlier one)
CallClosure(word) ==
    /\ pc = "done"
    /\ result.ok
    /\ cls_value = -1
    /\ cls_word' = word
    /\ cls_value' = call_closure(result.val.as_closure, word)
    /\ UNCHANGED << word_list, alg, pc, result, two_d, array, rlt, rlt_wrk,
                    unused_array_indices, it_index, row_index, rlt_value, h_calls,
                    run, prev_result >>

\* the caller runs generate_hash once more over the same list and algorithm
Rebuild ==
    /\ pc = "done"
    /\ run = 1
    /\ run' = 2
    /\ prev_result' = result
    /\ pc' = "is_valid"
    /\ result' = None
    /\ two_d' = None
    /\ array' = << >>
    /\ rlt' = Rlt_new(0)
    /\ rlt_wrk' = EmptyMap
    /\ unused_array_indices' = {}
    /\ it_index' = 0
    /\ row_index' = 0
    /\ rlt_value' = 0
    /\ h_calls' = 0
    /\ cls_word' = << >>
    /\ cls_value' = -1
    /\ UNCHANGED << word_list, alg >>

Next ==
    \/ Validate
    \/ BuildTwoD
    \/ PackNew
    \/ NextBiggest
    \/ TryInsert
    \/ Materialise
    \/ Verify
    \/ Emit
    \/ \E word \in QueryWords \cup Range(word_list) : CallClosure(word)
    \/ Rebuild

Spec == Init /\ [][Next]_vars

(***************************************************************************)
(* The unit tests of two_d_array.rs and one_d_packed_array.rs call         *)
(* TwoDArray::new and OneDPackedArray::new on a list that was never        *)
(* validated: SpecUnit starts there, with any list of the general family,  *)
(* and stops when the packer returns.                                      *)
(***************************************************************************)
InitUnit ==
    /\ \E input \in SeqsUpTo(SmallWords, MaxWords) \X Algorithms :
          word_list = input[1] /\ alg = input[2]
    /\ run = 1
    /\ prev_result = None
    /\ pc = "two_d"
    /\ FreshBuild

NextUnit ==
    \/ BuildTwoD
    \/ PackNew
    \/ NextBiggest
    \/ TryInsert
    \/ Materialise

SpecUnit == InitUnit /\ [][NextUnit]_vars

(***************************************************************************)
(* Two builds over the same words in two orders: SpecPerm builds a valid   *)
(* list of at most PermWords two-letter words, then builds any permutation *)
(* of it, keeping the result of the first build.                           *)
(***************************************************************************)
PermCols == { 65, 66, 67 }

PermLists ==
    LET cells == { << r, c >> : r \in PackRows, c \in PermCols }
        asc(S) == LET keys == Ascending({ CellKey(w) : w \in S })
                  IN  [k \in 1..Len(keys) |-> CHOOSE w \in S : CellKey(w) = keys[k]]
    IN  { asc(S) : S \in { T \in SUBSET cells : T # {} /\ Cardinality(T) <= PermWords } }

PermutationsOf(s) ==
    { [k \in 1..Len(s) |-> s[p[k]]] :
        p \in { q \in [1..Len(s) -> 1..Len(s)] :
                   \A a, b \in 1..Len(s) : a # b => q[a] # q[b] } }

InitPerm ==
    /\ word_list \in PermLists
    /\ alg = ElcAlgorithm_default
    /\ run = 1
    /\ prev_result = None
    /\ pc = "is_valid"
    /\ FreshBuild

\* the caller runs generate_hash over the same words in another order
Permute ==
    /\ pc = "done"
    /\ run = 1
    /\ run' = 2
    /\ prev_result' = result
    /\ word_list' \in PermutationsOf(word_list)
    /\ pc' = "is_valid"
    /\ result' = None
    /\ two_d' = None
    /\ array' = << >>
    /\ rlt' = Rlt_new(0)
    /\ rlt_wrk' = EmptyMap
    /\ unused_array_indices' = {}
    /\ it_index' = 0
    /\ row_index' = 0
    /\ rlt_value' = 0
    /\ h_calls' = 0
    /\ cls_word' = << >>
    /\ cls_value' = -1
    /\ UNCHANGED alg

NextPerm ==
    \/ Validate
    \/ BuildTwoD
    \/ PackNew
    \/ NextBiggest
    \/ TryInsert
    \/ Materialise
    \/ Verify
    \/ Emit
    \/ Permute

SpecPerm == InitPerm /\ [][NextPerm]_vars

(***************************************************************************)
(* verify called on its own: SpecVerify gives it any list of at most       *)
(* MaxWords words out of VerifyWords (repeated, blank and lower-case words *)
(* included), any Rlt of at most two entries out of VerifyDisplacements    *)
(* whose num_entries is the length of the list, and either algorithm.      *)
(***************************************************************************)
VerifyWords == { << >>, << 65 >>, << 66 >>, << 97 >>, << 65, 66 >>, << 66, 65 >> }

VerifyDisplacements == { -1, 0, 1, 2 }

InitVerify ==
    /\ \E input \in SeqsUpTo(VerifyWords, MaxWords) \X Algorithms :
          /\ word_list = input[1]
          /\ alg = input[2]
          /\ \E table \in SeqsUpTo(VerifyDisplacements, 2) :
                rlt = [table |-> table, num_words |-> Len(input[1])]
    /\ run = 1
    /\ prev_result = None
    /\ pc = "verify"
    /\ result = None
    /\ two_d = None
    /\ array = << >>
    /\ rlt_wrk = EmptyMap
    /\ unused_array_indices = {}
    /\ it_index = 0
    /\ row_index = 0
    /\ rlt_value = 0
    /\ h_calls = 0
    /\ cls_word = << >>
    /\ cls_value = -1

NextVerify ==
    \/ Verify
    \/ Emit

SpecVerify == InitVerify /\ [][NextVerify]_vars

(***************************************************************************)
(* h1 and h2 called on their own, as elc_algorithm_unit_test does: SpecElc *)
(* hashes any word of at most ElcLen characters out of ElcChars (A, B, Z,  *)
(* a lower-case letter and a two-byte character) under the algorithms of   *)
(* ElcAlgorithms.  The word is word_list[1]; the two results are kept in   *)
(* result.                                                                 *)
(***************************************************************************)
ElcChars == { 65, 66, 90, 97, 233 }

ElcAlgorithms ==
    { ElcAlgorithm_default, ElcAlgorithm_new(2, 26), ElcAlgorithm_new(2, 3),
      ElcAlgorithm_new(3, 26), ElcAlgorithm_new(0, 26) }

InitElc ==
    /\ \E input \in SeqsUpTo(ElcChars, ElcLen) \X ElcAlgorithms :
          word_list = << input[1] >> /\ alg = input[2]
    /\ run = 1
    /\ prev_result = None
    /\ pc = "h1_h2"
    /\ FreshBuild

HashWord ==
    /\ pc = "h1_h2"
    /\ result' = [h1 |-> h1(alg, word_list[1]), h2 |-> h2(alg, word_list[1])]
    /\ h_calls' = h_calls + 2
    /\ pc' = "hashed"
    /\ UNCHANGED << word_list, alg, two_d, array, rlt, rlt_wrk, unused_array_indices,
                    it_index, row_index, rlt_value, run, prev_result,
                    cls_word, cls_value >>

NextElc == HashWord

SpecElc == InitElc /\ [][NextElc]_vars

(***************************************************************************)
(* The word lists of the unit tests of one_d_packed_array.rs and of the    *)
(* integration test of tests/simple_tests.rs, built with the default       *)
(* ElcAlgorithm through generate_hash.                                     *)
(***************************************************************************)
FiveWordList ==
    << << 65, 88, 88, 65 >>, << 65, 88, 88, 67 >>, << 65, 88, 88, 68 >>,
       << 66, 88, 88, 65 >>, << 66, 88, 88, 67 >> >>

SixWordList == FiveWordList \o << << 66, 88, 88, 90 >> >>

TwoWordList == << << 87, 79, 82, 68 >>, << 87, 79, 82, 70 >> >>

\* AND, ARRAY, BEGIN, CHAR, CONST, DIV, DO, EOF
PascalList ==
    << << 65, 78, 68 >>, << 65, 82, 82, 65, 89 >>, << 66, 69, 71, 73, 78 >>,
       << 67, 72, 65, 82 >>, << 67, 79, 78, 83, 84 >>, << 68, 73, 86 >>,
       << 68, 79 >>, << 69, 79, 70 >> >>

TestLists == { FiveWordList, SixWordList, TwoWordList, PascalList }

InitTests ==
    /\ word_list \in TestLists
    /\ alg = ElcAlgorithm_default
    /\ run = 1
    /\ prev_result = None
    /\ pc = "is_valid"
    /\ FreshBuild

SpecTests == InitTests /\ [][Next]_vars

(***************************************************************************)
(* TwoDArray::new and OneDPackedArray::new called as the unit test of      *)
(* one_d_packed_array.rs calls them, on lists that hash without collision: *)
(* the packing family, the lists of the tests, and the lists of the        *)
(* permuted family in every order.                                         *)
(***************************************************************************)
InitPack ==
    /\ word_list \in PackLists \cup TestLists
                        \cup UNION { PermutationsOf(l) : l \in PermLists }
    /\ alg = ElcAlgorithm_default
    /\ run = 1
    /\ prev_result = None
    /\ pc = "two_d"
    /\ FreshBuild

SpecPack == InitPack /\ [][NextUnit]_vars

\* The same calls, from the one state in which the caller has not yet filled
\* its list.  OneDPackedArray::new is one sequential call: a step of it that
\* can be taken is taken, which is the fairness stated.
InitStart ==
    /\ word_list = << >>
    /\ alg = ElcAlgorithm_default
    /\ run = 1
    /\ prev_result = None
    /\ pc = "start"
    /\ FreshBuild

\* word_list.push(..) for every word of the list
TakeList ==
    /\ pc = "start"
    /\ word_list' \in PackLists \cup TestLists
                        \cup UNION { PermutationsOf(l) : l \in PermLists }
    /\ pc' = "two_d"
    /\ UNCHANGED << alg, result, two_d, array, rlt, rlt_wrk, unused_array_indices,
                    it_index, row_index, rlt_value, h_calls, run, prev_result,
                    cls_word, cls_value >>

NextPack ==
    \/ TakeList
    \/ NextUnit

\* the positions of generate_hash inside OneDPackedArray::new
PackingStages == { "pack_new", "next_biggest", "not_inserted", "materialise" }

\* Weak fairness of every step of the packer.  For TryInsert it is written
\* out (always eventually TryInsert cannot be taken, or always eventually it
\* is taken) with its enabling condition, pc = "not_inserted": the action is
\* defined on every state at that position and changes pc or rlt_value.
PackerFairness ==
    /\ WF_vars(PackNew)
    /\ WF_vars(NextBiggest)
    /\ WF_vars(Materialise)
    /\ ([]<>(pc # "not_inserted") \/ []<><< TryInsert >>_vars)

SpecPackFair == InitStart /\ [][NextPack]_vars /\ PackerFairness

(***************************************************************************)
(* Vocabulary of the properties.                                           *)
(***************************************************************************)
N == Len(word_list)

\* generate_hash has returned Ok(HashData)
Succeeded == pc = "done" /\ result.ok

\* generate_hash has returned an error of this kind
Failed(kind) == pc = "done" /\ ~ result.ok /\ result.kind = kind

\* OneDPackedArray::new has returned Ok
PackingSucceeded == pc \in { "verify", "emit" } \/ Succeeded

\* OneDPackedArray::new has returned "unable to minimally pack array"
PackingFailed ==
    Failed("OneDPackedArrayError") /\ result.text = "unable to minimally pack array"

\* row and column of the i-th word (h1 and h2 succeed on it)
RowOf(i) == h1(alg, word_list[i]).val

ColOf(i) == h2(alg, word_list[i]).val

\* some accepted row has a column that passed the end of the array
SomeRowWraps ==
    \E r \in DOMAIN rlt_wrk : \E c \in DOMAIN two_d.rows[r].cols : c + rlt_wrk[r] >= N

(***************************************************************************)
(* C1  Bijectivity: whenever generate_hash returns Ok, the closure of the  *)
(* HashData maps the words of the list one-to-one onto 0..N-1.             *)
(***************************************************************************)
Bijectivity ==
    Succeeded =>
        LET value == [i \in 1..N |-> call_closure(result.val.as_closure, word_list[i])]
        IN  /\ Range(value) = 0..(N - 1)
            /\ \A i, j \in 1..N : i # j => value[i] # value[j]

\* a build of five or more words succeeded with a negative displacement
BijectivityWitness ==
    /\ Succeeded
    /\ N >= 5
    /\ \E r \in DOMAIN rlt_wrk : rlt_wrk[r] < 0

(***************************************************************************)
(* C2  After OneDPackedArray::new succeeds, the packed array holds the     *)
(* ordinal i of every word at position (rlt[h1(word)] + h2(word)) mod N,   *)
(* also for rows of which some columns wrapped around past N.              *)
(***************************************************************************)
OrdinalAtHashedPosition ==
    PackingSucceeded =>
        \A i \in 1..N : array[((rlt.table[RowOf(i) + 1] + ColOf(i)) % N) + 1] = i

(***************************************************************************)
(* C3  After OneDPackedArray::new succeeds, the packed array has length N  *)
(* and is a permutation of the ordinals 1..N: no ordinal is repeated and   *)
(* no position keeps its initial 0.                                        *)
(***************************************************************************)
PackedIsPermutation ==
    PackingSucceeded =>
        /\ Len(array) = N
        /\ Range(array) = 1..N
        /\ \A k \in 1..N : array[k] # 0

\* a packing of four or more words succeeded with a row that wraps around
PackedIsPermutationWitness ==
    /\ PackingSucceeded
    /\ N >= 4
    /\ SomeRowWraps

(***************************************************************************)
(* C4  Collision detection: on a list of which every word hashes,          *)
(* TwoDArray::new returns TwoDArrayError exactly when two positions share  *)
(* their (h1, h2) pair; the error names the words at i and j, in that      *)
(* order, j being the smallest position with an earlier position i of the  *)
(* same pair; and when it succeeds every word is in its own cell.          *)
(***************************************************************************)
TwoDReturned == pc \notin { "is_valid", "two_d" }

AllHashOk == \A i \in 1..N : h1(alg, word_list[i]).ok /\ h2(alg, word_list[i]).ok

SamePair(i, j) == RowOf(i) = RowOf(j) /\ ColOf(i) = ColOf(j)

Colliding == { j \in 1..N : \E i \in 1..(j - 1) : SamePair(i, j) }

CollisionDetection ==
    (TwoDReturned /\ AllHashOk /\ ~ Failed("WordListError")) =>
        /\ Failed("TwoDArrayError") <=> Colliding # {}
        /\ Failed("TwoDArrayError") =>
              LET j == Min(Colliding)
                  i == CHOOSE k \in 1..(j - 1) : SamePair(k, j)
              IN  result.words = << word_list[i], word_list[j] >>
        /\ (Colliding = {} /\ N > 0) =>
              \A i \in 1..N : two_d.rows[RowOf(i)].cols[ColOf(i)] = i

\* two different words collide, the later one at position 3
CollisionDetectionWitness ==
    /\ Failed("TwoDArrayError")
    /\ Min(Colliding) = 3
    /\ result.words[1] # result.words[2]

(***************************************************************************)
(* C5  (as claimed) Whenever packing fails with "unable to minimally pack  *)
(* array", no assignment of one displacement per row makes the positions   *)
(* (d_row + c) mod N of all cells pairwise distinct.                       *)
(***************************************************************************)
Feasible ==
    \E d \in [DOMAIN two_d.rows -> 0..(N - 1)] :
        Cardinality({ (d[RowOf(i)] + ColOf(i)) % N : i \in 1..N }) = N

FailureMeansInfeasible == PackingFailed => ~ Feasible

(***************************************************************************)
(* C5  (amended) Whenever packing fails with "unable to minimally pack     *)
(* array", the row it fails on cannot be placed at any displacement given  *)
(* the positions taken by the rows placed before it: for every position t  *)
(* of its first column, the targets collapse modulo N or one is occupied.  *)
(***************************************************************************)
FitsAt(row, t) ==
    LET cols == DOMAIN row.cols
        targets == { (c - Min(cols) + t) % N : c \in cols }
    IN  Cardinality(targets) = Cardinality(cols) /\ targets \subseteq unused_array_indices

FailingRowHasNoPlace ==
    PackingFailed => \A t \in 0..(N - 1) : ~ FitsAt(two_d.rows[row_index], t)

\* the packer failed on its third row although a joint assignment exists
FailingRowHasNoPlaceWitness ==
    /\ PackingFailed
    /\ it_index = 3
    /\ Feasible

(***************************************************************************)
(* C6  generate_hash runs validation, TwoDArray::new, OneDPackedArray::new *)
(* and verify in this order and returns the error of the first stage that  *)
(* fails, of the kind of that stage; a validation error is returned as     *)
(* is_valid gave it and no h1/h2 has been evaluated then; HashData is      *)
(* returned only after verify succeeded, and never with or after an error. *)
(***************************************************************************)
StageOrderStep ==
    /\ pc = "is_valid" =>
          /\ pc' \in { "two_d", "done" }
          /\ pc' = "two_d" <=> is_valid(word_list).ok
          /\ pc' = "done" => result' = is_valid(word_list) /\ result'.kind = "WordListError"
                             /\ h_calls' = 0
    /\ pc = "two_d" =>
          /\ pc' \in { "pack_new", "done" }
          /\ pc' = "done" => ~ result'.ok
                             /\ result'.kind \in { "ElcAlgorithmError", "TwoDArrayError" }
    /\ pc \in PackingStages =>
          /\ pc' \in PackingStages \cup { "verify", "done" }
          /\ pc' = "done" => ~ result'.ok /\ result'.kind = "OneDPackedArrayError"
    /\ pc = "verify" =>
          /\ pc' \in { "emit", "done" }
          /\ pc' = "done" => ~ result'.ok /\ result'.kind = "HashError"
    /\ pc = "emit" => pc' = "done" /\ result'.ok
    /\ (pc # "emit" /\ pc' = "done") => (pc = "done" \/ ~ result'.ok)
    /\ (pc = "done" /\ pc' = "done") => result' = result
    /\ pc' # "done" => result' = None

StageOrder == [][StageOrderStep]_vars

\* the packing failed, after validation and TwoDArray::new succeeded
StageOrderWitness ==
    /\ Failed("OneDPackedArrayError")
    /\ is_valid(word_list).ok
    /\ two_d # None

(***************************************************************************)
(* C7  is_valid returns Ok exactly when the list is non-empty, every       *)
(* character of every word is an ASCII uppercase letter and the words are  *)
(* pairwise distinct; otherwise the error is "empty" for an empty list,    *)
(* else the error of the smallest position K whose word has a              *)
(* non-uppercase character or repeats an earlier word, the character       *)
(* error winning when both apply at K.  is_valid leaves the list as it is. *)
(***************************************************************************)
BadChars(i) == \E k \in 1..Len(word_list[i]) : ~ is_ascii_uppercase(word_list[i][k])

Repeats(i) == \E j \in 1..(i - 1) : word_list[j] = word_list[i]

Offending == { i \in 1..N : BadChars(i) \/ Repeats(i) }

ValidationOutcome ==
    pc # "is_valid" =>
        /\ ~ Failed("WordListError") <=> (N > 0 /\ Offending = {})
        /\ (Failed("WordListError") /\ N = 0) => result.text = "Empty word list."
        /\ (Failed("WordListError") /\ N > 0) =>
              /\ result.pos = Min(Offending)
              /\ IF BadChars(Min(Offending))
                 THEN result.text = "Non ASCII upper case alphabetic word detected at"
                 ELSE /\ result.text = "Duplicate word detected"
                      /\ result.words = << word_list[Min(Offending)] >>

ValidationLeavesList == pc = "is_valid" => word_list' = word_list

ValidationContract == [] ValidationOutcome /\ [][ValidationLeavesList]_vars

\* the second word repeats the first and the third has a lower-case letter:
\* the error is the one of the second
ValidationContractWitness ==
    /\ Failed("WordListError")
    /\ N = 3
    /\ Min(Offending) = 2
    /\ Repeats(2)
    /\ BadChars(3)

(***************************************************************************)
(* C8  A list that contains an empty word fails validation.                *)
(***************************************************************************)
BlankWordFailsValidation ==
    (pc # "is_valid" /\ \E i \in 1..N : word_list[i] = << >>) => Failed("WordListError")

(***************************************************************************)
(* C9  The closure of a successful build returns, for every input, member  *)
(* or not, a value in 0..N-1: with 0 for a failing h1 or h2, displacement  *)
(* 0 for a row index outside the Rlt, and 0 for a negative sum             *)
(* rlt[row] + col, reduced modulo N.                                       *)
(***************************************************************************)
QueryRow == IF h1(alg, cls_word).ok THEN h1(alg, cls_word).val ELSE 0

QueryCol == IF h2(alg, cls_word).ok THEN h2(alg, cls_word).val ELSE 0

QueryDisplacement == IF QueryRow < Len(rlt.table) THEN rlt.table[QueryRow + 1] ELSE 0

ClosureCalled == Succeeded /\ cls_value # -1

ClosureTotal ==
    ClosureCalled =>
        /\ cls_value \in 0..(N - 1)
        /\ cls_value = (IF QueryDisplacement + QueryCol < 0 THEN 0
                        ELSE QueryDisplacement + QueryCol) % N

\* the closure of a build of two or more words was called with a word that
\* is not in the list and whose row index is outside the Rlt
ClosureTotalWitness ==
    /\ ClosureCalled
    /\ N >= 2
    /\ cls_word \notin Range(word_list)
    /\ h1(alg, cls_word).ok
    /\ QueryRow >= Len(rlt.table)
    /\ \E r \in DOMAIN rlt_wrk : rlt_wrk[r] # 0

(***************************************************************************)
(* C11  Ordering stability: a build over a permutation of a valid list has *)
(* the packing outcome of the build over the list (both fail to pack or    *)
(* neither does) and, when it succeeds, the same Rlt: the same length, the *)
(* same displacement at every row and the same N.                          *)
(***************************************************************************)
PackingError(r) == ~ r.ok /\ r.kind = "OneDPackedArrayError"

OrderingStability ==
    (run = 2 /\ pc = "done") =>
        /\ PackingError(result) <=> PackingError(prev_result)
        /\ result.ok <=> prev_result.ok
        /\ result.ok =>
              /\ Len(result.val.as_closure.rlt.table) = Len(prev_result.val.as_closure.rlt.table)
              /\ result.val.as_closure.rlt.table = prev_result.val.as_closure.rlt.table
              /\ result.val.as_closure.rlt.num_words = prev_result.val.as_closure.rlt.num_words

\* a list whose first word is not its smallest was built after its ascending
\* order, both with success, on two rows of the same size that did not both
\* stay where they were
OrderingStabilityWitness ==
    /\ run = 2
    /\ Succeeded
    /\ N >= 3
    /\ CellKey(word_list[1]) > CellKey(word_list[N])
    /\ \E r1, r2 \in DOMAIN two_d.rows :
          /\ r1 < r2
          /\ Cardinality(DOMAIN two_d.rows[r1].cols) = Cardinality(DOMAIN two_d.rows[r2].cols)
          /\ rlt_wrk[r1] # rlt_wrk[r2]
          /\ Min({ two_d.rows[r2].cols[c] : c \in DOMAIN two_d.rows[r2].cols })
                < Min({ two_d.rows[r1].cols[c] : c \in DOMAIN two_d.rows[r1].cols })

(***************************************************************************)
(* C12  Verifier: for a list of N words, an Rlt whose num_entries is N and *)
(* an algorithm, verify returns Ok exactly when the closure values of the  *)
(* words are pairwise distinct and are the set 0..N-1; when two words of   *)
(* the list have the same closure value it returns the HashError           *)
(* "Collision detected while verifying the hash.".                         *)
(***************************************************************************)
ClosureValue(i) == hash(word_list[i], rlt, alg)

ValuesCollide == \E i, j \in 1..N : i < j /\ ClosureValue(i) = ClosureValue(j)

VerifyReturned == pc \in { "emit", "done" }

VerifyReturnedOk == pc = "emit" \/ (pc = "done" /\ result.ok)

VerifierContract ==
    VerifyReturned =>
        /\ VerifyReturnedOk <=>
              (~ ValuesCollide /\ { ClosureValue(i) : i \in 1..N } = 0..(N - 1))
        /\ ValuesCollide =>
              /\ pc = "done"
              /\ ~ result.ok
              /\ result.kind = "HashError"
              /\ result.text = "Collision detected while verifying the hash."

\* verify reported a collision on three different words, the first two of
\* which have different closure values
VerifierContractWitness ==
    /\ pc = "done"
    /\ ~ result.ok
    /\ result.text = "Collision detected while verifying the hash."
    /\ N = 3
    /\ Cardinality(Range(word_list)) = 3
    /\ ClosureValue(1) # ClosureValue(2)
    /\ \E k \in 1..Len(rlt.table) : rlt.table[k] # 0

(***************************************************************************)
(* C15  ElcAlgorithm arithmetic: for a word of at least elc characters     *)
(* whose first elc characters are upper case, h1 is the base-num_vals      *)
(* value of these characters (A = 0 .. Z = 25), the first being the most   *)
(* significant; for one whose last elc characters are upper case, h2 is    *)
(* the base-num_vals value of these, the last character of the word being  *)
(* the most significant.  Under (2, 26), h1(BA) = 26 and h2(BA) = 1; under *)
(* the default, h1 is the index of the first letter and h2 of the last.    *)
(***************************************************************************)
RECURSIVE Pow(_, _)
Pow(b, e) == IF e = 0 THEN 1 ELSE b * Pow(b, e - 1)

\* the value of the digits d, d[1] the most significant
RECURSIVE PositionalValue(_, _)
PositionalValue(d, base) ==
    IF d = << >> THEN 0
    ELSE Head(d) * Pow(base, Len(d) - 1) + PositionalValue(Tail(d), base)

HashedWord == word_list[1]

LeadingDigits == [k \in 1..alg.elc |-> HashedWord[k] - 65]

TrailingDigits == [k \in 1..alg.elc |-> HashedWord[Len(HashedWord) + 1 - k] - 65]

LeadingUpper ==
    /\ Len(HashedWord) >= alg.elc
    /\ \A k \in 1..alg.elc : is_ascii_uppercase(HashedWord[k])

TrailingUpper ==
    /\ Len(HashedWord) >= alg.elc
    /\ \A k \in 1..alg.elc : is_ascii_uppercase(HashedWord[Len(HashedWord) + 1 - k])

ElcArithmetic ==
    pc = "hashed" =>
        /\ LeadingUpper => result.h1 = Ok(PositionalValue(LeadingDigits, alg.num_vals))
        /\ TrailingUpper => result.h2 = Ok(PositionalValue(TrailingDigits, alg.num_vals))
        /\ (alg = ElcAlgorithm_new(2, 26) /\ HashedWord = << 66, 65 >>) =>
              result.h1 = Ok(26) /\ result.h2 = Ok(1)
        /\ (alg = ElcAlgorithm_default /\ LeadingUpper) => result.h1 = Ok(HashedWord[1] - 65)
        /\ (alg = ElcAlgorithm_default /\ TrailingUpper) =>
              result.h2 = Ok(HashedWord[Len(HashedWord)] - 65)

\* "BA" was hashed under (2, 26)
ElcArithmeticWitness ==
    /\ pc = "hashed"
    /\ alg = ElcAlgorithm_new(2, 26)
    /\ HashedWord = << 66, 65 >>
    /\ result.h1.ok
    /\ result.h2.ok

(***************************************************************************)
(* C16  ElcAlgorithm errors: h1 (h2) returns an ElcAlgorithmError exactly  *)
(* when the word is shorter than elc (its length being what str::len       *)
(* gives) or one of its first (last) elc characters is not an ASCII        *)
(* upper-case letter, and Ok otherwise; for a word shorter than elc the    *)
(* error is the length error, whatever its characters; a character outside *)
(* the hashed window causes no error.                                      *)
(***************************************************************************)
TooShort == str_len(HashedWord) < alg.elc

LeadingBad ==
    \E k \in 1..Min({ alg.elc, Len(HashedWord) }) : ~ is_ascii_uppercase(HashedWord[k])

TrailingBad ==
    \E k \in 1..Min({ alg.elc, Len(HashedWord) }) :
        ~ is_ascii_uppercase(HashedWord[Len(HashedWord) + 1 - k])

IsElcError(r) == ~ r.ok /\ r.kind = "ElcAlgorithmError"

LengthText == "Expected word length to be greater than or equal to elc"

ElcErrors ==
    pc = "hashed" =>
        /\ result.h1.ok \/ IsElcError(result.h1)
        /\ result.h2.ok \/ IsElcError(result.h2)
        /\ IsElcError(result.h1) <=> (TooShort \/ LeadingBad)
        /\ IsElcError(result.h2) <=> (TooShort \/ TrailingBad)
        /\ TooShort => result.h1.text = LengthText /\ result.h2.text = LengthText
        /\ (~ TooShort /\ LeadingBad) => result.h1.text = "Unexpected character(s) encountered"
        /\ (~ TooShort /\ TrailingBad) => result.h2.text = "Unexpected character(s) encountered"

\* under an algorithm of two characters, a word of four characters that ends
\* in a two-byte character and has a lower-case third: h1 is Ok, h2 is the
\* character error
ElcErrorsWitness ==
    /\ pc = "hashed"
    /\ alg.elc = 2
    /\ Len(HashedWord) = 4
    /\ HashedWord[3] = 97
    /\ HashedWord[4] = 233
    /\ result.h1.ok
    /\ IsElcError(result.h2)
    /\ result.h2.text = "Unexpected character(s) encountered"

(***************************************************************************)
(* C13  Five-word pack: for (AXXA, AXXC, AXXD, BXXA, BXXC) under the       *)
(* default ElcAlgorithm the build does not fail, and the packing leaves    *)
(* the packed array [1, 4, 2, 3, 5], of length 5, with Rlt[0] = 0 and      *)
(* Rlt[1] = 4.                                                             *)
(***************************************************************************)
FiveWordPack ==
    word_list = FiveWordList =>
        /\ pc = "done" => result.ok
        /\ PackingSucceeded =>
              /\ array = << 1, 4, 2, 3, 5 >>
              /\ Rlt_get(rlt, 0) = Ok(0)
              /\ Rlt_get(rlt, 1) = Ok(4)
              /\ Len(array) = 5

\* OneDPackedArray::new has just returned for the five-word list
FiveWordPackWitness ==
    /\ word_list = FiveWordList
    /\ pc = "verify"
    /\ DOMAIN rlt_wrk = { 0, 1 }

(***************************************************************************)
(* C14  Pascal keywords: for (AND, ARRAY, BEGIN, CHAR, CONST, DIV, DO,     *)
(* EOF) under the default ElcAlgorithm generate_hash succeeds, the closure *)
(* maps AND to 4, BEGIN to 7, CHAR to 3 and EOF to 2, and the image of the *)
(* eight words is 0..7.                                                    *)
(***************************************************************************)
PascalKeywords ==
    (word_list = PascalList /\ pc = "done") =>
        /\ result.ok
        /\ call_closure(result.val.as_closure, PascalList[1]) = 4
        /\ call_closure(result.val.as_closure, PascalList[3]) = 7
        /\ call_closure(result.val.as_closure, PascalList[4]) = 3
        /\ call_closure(result.val.as_closure, PascalList[8]) = 2
        /\ { call_closure(result.val.as_closure, PascalList[i]) : i \in 1..8 } = 0..7

(***************************************************************************)
(* C17  Row processing order: next_biggest yields every populated row      *)
(* once, a row with more populated columns before one with fewer and, of   *)
(* two rows with as many, the one of smaller index first, and then yields  *)
(* None; every row exposes its column indices in ascending order and its   *)
(* word ordinals in the order of their columns; the packer places the rows *)
(* in the order they are yielded.                                          *)
(***************************************************************************)
PopulatedRows == { RowOf(i) : i \in 1..N }

RowSize(r) == Cardinality({ i \in 1..N : RowOf(i) = r })

ComesBefore(q, r) == RowSize(q) > RowSize(r) \/ (RowSize(q) = RowSize(r) /\ q < r)

\* the number of populated rows that come before r
Rank(r) == Cardinality({ q \in PopulatedRows : ComesBefore(q, r) })

RowExposure ==
    two_d # None =>
        /\ DOMAIN two_d.rows = PopulatedRows
        /\ \A r \in DOMAIN two_d.rows :
              LET col_indices == get_col_indices(two_d.rows[r])
                  col_values == get_col_values(two_d.rows[r])
              IN  /\ Len(col_indices) = RowSize(r)
                  /\ Len(col_values) = RowSize(r)
                  /\ \A k \in 1..(Len(col_indices) - 1) : col_indices[k] < col_indices[k + 1]
                  /\ \A k \in 1..Len(col_values) :
                        /\ RowOf(col_values[k]) = r
                        /\ ColOf(col_values[k]) = col_indices[k]

RowOrderStep ==
    /\ (pc = "next_biggest" /\ it_index < Cardinality(PopulatedRows)) =>
          /\ pc' = "not_inserted"
          /\ row_index' \in PopulatedRows
          /\ Rank(row_index') = it_index
          /\ it_index' = it_index + 1
    /\ (pc = "next_biggest" /\ it_index >= Cardinality(PopulatedRows)) =>
          /\ pc' = "materialise"
          /\ DOMAIN rlt_wrk = PopulatedRows
    /\ (pc = "not_inserted" /\ pc' = "next_biggest") =>
          DOMAIN rlt_wrk' = { r \in PopulatedRows : Rank(r) < it_index }

RowOrder == [] RowExposure /\ [][RowOrderStep]_vars

\* all of three rows were placed: the row of largest index has two columns
\* and the two rows before it have one, and some row holds its ordinals in
\* descending order
RowOrderWitness ==
    /\ pc = "materialise"
    /\ \E r1, r2, r3 \in PopulatedRows :
          /\ r3 < r2 /\ r2 < r1
          /\ RowSize(r1) = 2 /\ RowSize(r2) = 1 /\ RowSize(r3) = 1
    /\ \E r \in DOMAIN two_d.rows :
          /\ RowSize(r) >= 2
          /\ get_col_values(two_d.rows[r])[1] > get_col_values(two_d.rows[r])[2]

(***************************************************************************)
(* C18  First feasible displacement: for a row of ascending columns cols   *)
(* taken when the unused set is U, with c0 = cols[0] and u0 = min U, the   *)
(* displacement recorded is the smallest d with u0 - c0 <= d and           *)
(* d + c0 < N of which the targets (c + d) mod N, c in cols, are pairwise  *)
(* distinct and all in U; the packing fails with "unable to minimally pack *)
(* array" exactly when the row has no such d, as the row of WORD and WORF  *)
(* (columns 3 and 5, N = 2) and the second row of the five-word list with  *)
(* BXXZ added.                                                             *)
(***************************************************************************)
PlacedRowCols == DOMAIN two_d.rows[row_index].cols

DisplacementFits(d) ==
    LET targets == { (c + d) % N : c \in PlacedRowCols }
    IN  /\ Cardinality(targets) = Cardinality(PlacedRowCols)
        /\ targets \subseteq unused_array_indices

\* the displacements the search may record for the row it is placing
FeasibleDisplacements ==
    { d \in (Min(unused_array_indices) - Min(PlacedRowCols))..(N - 1 - Min(PlacedRowCols)) :
         DisplacementFits(d) }

FirstFitStep ==
    pc = "not_inserted" =>
        /\ pc' \in { "not_inserted", "next_biggest", "done" }
        /\ pc' = "next_biggest" =>
              /\ FeasibleDisplacements # {}
              /\ rlt_value = Min(FeasibleDisplacements)
              /\ rlt_wrk' = map_insert(rlt_wrk, row_index, Min(FeasibleDisplacements))
        /\ pc' = "done" =>
              /\ FeasibleDisplacements = {}
              /\ result' = Error("OneDPackedArrayError", "unable to minimally pack array",
                                 0, << >>)
        /\ pc' = "not_inserted" =>
              /\ rlt_value \notin FeasibleDisplacements
              /\ \A d \in FeasibleDisplacements : d > rlt_value
              /\ rlt_value' = rlt_value + 1

FirstFitExamples ==
    /\ (word_list = TwoWordList /\ pc = "done") => PackingFailed
    /\ (word_list = SixWordList /\ pc = "done") => PackingFailed /\ it_index = 2

FirstFit == [] FirstFitExamples /\ [][FirstFitStep]_vars

\* a row of two or more columns, not the first, was accepted with its first
\* column at position 4 or later and a target that wraps around
FirstFitWitness ==
    /\ pc = "next_biggest"
    /\ it_index >= 2
    /\ row_index \in DOMAIN rlt_wrk
    /\ Cardinality(PlacedRowCols) >= 2
    /\ \E c \in PlacedRowCols : c + rlt_wrk[row_index] >= N
    /\ rlt_wrk[row_index] + Min(PlacedRowCols) >= 4

(***************************************************************************)
(* C19  Rlt materialisation: after a successful packing the Rlt has length *)
(* last_row_index + 1, the largest h1 of the list plus one; it holds at    *)
(* every populated row index the displacement accepted for the row, which  *)
(* puts the cells of the row on the positions that hold its ordinals, and  *)
(* 0 at every row index no word hashes to; its num_entries is N.           *)
(***************************************************************************)
RowOrdinals(r) == { i \in 1..N : RowOf(i) = r }

RowPositions(r) == { (rlt.table[r + 1] + ColOf(i)) % N : i \in RowOrdinals(r) }

RltMaterialised ==
    PackingSucceeded =>
        /\ Len(rlt.table) = Max(PopulatedRows) + 1
        /\ Len(rlt.table) = two_d.last_row_index + 1
        /\ get_num_entries(rlt) = N
        /\ \A r \in 0..(Len(rlt.table) - 1) :
              IF r \in PopulatedRows
              THEN /\ Rlt_get(rlt, r) = Ok(rlt_wrk[r])
                   /\ { array[p + 1] : p \in RowPositions(r) } = RowOrdinals(r)
              ELSE Rlt_get(rlt, r) = Ok(0)

\* a packing succeeded on rows 0 and 2 with nothing in row 1, the last row
\* at a displacement that is not 0
RltMaterialisedWitness ==
    /\ pc = "verify"
    /\ PopulatedRows = { 0, 2 }
    /\ rlt.table[3] # 0
    /\ rlt.table[2] = 0
    /\ N >= 3

(***************************************************************************)
(* C20  Termination: on a collision-free TwoDArray the packing search      *)
(* returns, with every row placed or with the packing error; it takes at   *)
(* most N rows and tries at most N displacements for a row: the target of  *)
(* the first column, d + c0, starts at min U, grows by one with every      *)
(* rejection and stays below N.                                            *)
(***************************************************************************)
PackingReturned == pc \in { "verify", "done" }

\* the displacements tried so far for the row being placed
DisplacementsTried == rlt_value + Min(PlacedRowCols) - Min(unused_array_indices) + 1

SearchBounded ==
    /\ pc \in PackingStages => it_index <= N
    /\ pc = "not_inserted" =>
          /\ unused_array_indices # {}
          /\ DisplacementsTried \in 1..N
          /\ rlt_value + Min(PlacedRowCols) < N
    /\ pc = "verify" => DOMAIN rlt_wrk = PopulatedRows
    /\ (pc = "done" /\ two_d # None) => PackingFailed

SearchStep ==
    (pc = "not_inserted" /\ pc' = "not_inserted") =>
        /\ rlt_value' = rlt_value + 1
        /\ unused_array_indices' = unused_array_indices
        /\ row_index' = row_index

Termination ==
    /\ (pc = "pack_new") ~> PackingReturned
    /\ [] SearchBounded
    /\ [][SearchStep]_vars

\* the search gave up on a row after trying five displacements for it
TerminationWitness ==
    /\ PackingFailed
    /\ N >= 6
    /\ it_index >= 2
    /\ rlt_value + Min(PlacedRowCols) = N
    /\ rlt_value + Min(PlacedRowCols) - Min(unused_array_indices) >= 5

(***************************************************************************)
(* C21  Non-negative targets: every sum c + d the packer hands to          *)
(* adjust_index, for a column c of the row being placed and a displacement *)
(* d being tried, is at least 0, so adjust_index returns a residue in      *)
(* 0..N-1 and never takes its "Unexpected negative adjusted index" branch; *)
(* and for every member word of a successful build the closure's sum       *)
(* rlt[h1(word)] + h2(word) is at least 0, so hash does not fall back to 0 *)
(* for a member.                                                           *)
(***************************************************************************)
PackerSumsNonNegative ==
    pc = "not_inserted" =>
        \A c \in PlacedRowCols :
            /\ c + rlt_value >= 0
            /\ adjust_index(c, rlt_value, Len(array)).ok
            /\ adjust_index(c, rlt_value, Len(array)).val \in 0..(N - 1)

\* the sum the closure of a successful build computes for the member word i
ClosureSum(i) ==
    LET cls == result.val.as_closure
        hashed_row == unwrap_or(h1(cls.alg, word_list[i]), 0)
        hashed_col == unwrap_or(h2(cls.alg, word_list[i]), 0)
    IN  unwrap_or(Rlt_get(cls.rlt, hashed_row), 0) + hashed_col

NonNegativeTargets ==
    /\ PackerSumsNonNegative
    /\ ~ Failed("panic")
    /\ Succeeded => \A i \in 1..N : ClosureSum(i) >= 0

\* a successful build of five words or more that placed a row at a negative
\* displacement, so that a member's sum is smaller than its column
NonNegativeTargetsWitness ==
    /\ Succeeded
    /\ N >= 5
    /\ \E i \in 1..N : ClosureSum(i) < ColOf(i) /\ ClosureSum(i) >= 1
    /\ \E i \in 1..N : ClosureSum(i) = 0 /\ ColOf(i) >= 2

(***************************************************************************)
(* C22  Verification never fails after a successful packing: whenever      *)
(* TwoDArray::new and OneDPackedArray::new have both succeeded on a valid  *)
(* list, verify returns Ok on the packed array's Rlt, so generate_hash     *)
(* never returns a HashError ("Collision detected", "Unexpected gap" and   *)
(* "out of range" are not reachable through generate_hash).                *)
(***************************************************************************)
VerifyAfterPacking ==
    /\ pc = "verify" => verify(word_list, rlt, alg).ok
    /\ ~ Failed("HashError")
    /\ (pc = "done" /\ ~ result.ok) =>
          result.text \notin { "Collision detected while verifying the hash.",
                               "Unexpected gap found in index list.",
                               "Hash value is out of range." }

\* verify has just returned Ok on a packing of five words or more in which a
\* row wraps past the end of the array and a row has a negative displacement
VerifyAfterPackingWitness ==
    /\ pc = "emit"
    /\ N >= 5
    /\ SomeRowWraps
    /\ \E r \in DOMAIN rlt_wrk : rlt_wrk[r] < 0

(***************************************************************************)
(* C23  Unused-set invariant of the packer: between row placements the     *)
(* unused set U is exactly the set of positions of 0..N-1 not yet written, *)
(* no position has been written twice (the written positions hold the     *)
(* cells of the rows placed, one each), and |U| is N minus the number of   *)
(* cells of the rows placed; hence U is not empty while a row remains to   *)
(* be placed ("Unexpected no unused index found" is never returned) and U  *)
(* is empty when the packing succeeds.                                     *)
(***************************************************************************)
BetweenPlacements == pc \in { "next_biggest", "not_inserted", "materialise", "verify" }

\* the positions written so far (a cell value is a word's ordinal, never 0)
Written == { p \in 0..(Len(array) - 1) : array[p + 1] # 0 }

\* the cells of the rows placed so far, as ordinals of their words
PlacedCells == { i \in 1..N : RowOf(i) \in DOMAIN rlt_wrk }

RowRemains == get_row_by_size(two_d, it_index) # None

UnusedSetInvariant ==
    /\ BetweenPlacements =>
          /\ Len(array) = N
          /\ unused_array_indices = (0..(N - 1)) \ Written
          /\ Cardinality(Written) = Cardinality(PlacedCells)
          /\ { array[p + 1] : p \in Written } = PlacedCells
          /\ Cardinality(unused_array_indices) = N - Cardinality(PlacedCells)
    /\ pc = "not_inserted" => unused_array_indices # {}
    /\ (pc = "next_biggest" /\ RowRemains) => unused_array_indices # {}
    /\ (pc = "done" /\ ~ result.ok) => result.text # "Unexpected no unused index found"
    /\ pc \in { "materialise", "verify" } => unused_array_indices = {}

\* two rows are placed, a third remains, and the unused positions are not
\* one run: a written position lies between two unused ones
UnusedSetInvariantWitness ==
    /\ pc = "next_biggest"
    /\ RowRemains
    /\ Cardinality(DOMAIN rlt_wrk) = 2
    /\ Cardinality(unused_array_indices) >= 2
    /\ \E p, q \in unused_array_indices : \E w \in Written : p < w /\ w < q

(***************************************************************************)
(* C24  A rejected displacement changes nothing: when not_inserted returns *)
(* true (two targets collapse under the modulus, or a target is already    *)
(* occupied) the packed array and the unused set U are as before the call; *)
(* only an accepted displacement removes its targets from U and writes the *)
(* array, and it writes only at its targets, which were unwritten, so that *)
(* every position placed before keeps its value.                           *)
(***************************************************************************)
\* the targets of the row being placed under the displacement being tried
Targets == { (c + rlt_value) % N : c \in PlacedRowCols }

TargetsCollapse == Cardinality(Targets) # Cardinality(PlacedRowCols)

TargetOccupied == \E t \in Targets : t \notin unused_array_indices

RejectedStep ==
    /\ array' = array
    /\ unused_array_indices' = unused_array_indices
    /\ rlt_wrk' = rlt_wrk
    /\ pc' \in { "not_inserted", "done" }

AcceptedStep ==
    /\ pc' = "next_biggest"
    /\ unused_array_indices' = unused_array_indices \ Targets
    /\ \A p \in (0..(N - 1)) \ Targets : array'[p + 1] = array[p + 1]
    /\ \A t \in Targets : array[t + 1] = 0 /\ array'[t + 1] \in RowOrdinals(row_index)
    /\ Len(array') = Len(array)

RejectionFrameStep ==
    pc = "not_inserted" =>
        /\ not_inserted(array, unused_array_indices, two_d.rows[row_index], rlt_value).returned
               <=> (TargetsCollapse \/ TargetOccupied)
        /\ IF TargetsCollapse \/ TargetOccupied THEN RejectedStep ELSE AcceptedStep

\* outside the inner loop the packer writes the array and U only when it creates them
OnlyInsertWrites ==
    (pc \notin { "not_inserted", "pack_new" }) =>
        array' = array /\ unused_array_indices' = unused_array_indices

RejectionFrame == [][RejectionFrameStep /\ OnlyInsertWrites]_vars

\* a row, not the first, has had two displacements or more rejected, the last
\* one because a target was occupied while an earlier target of it was free,
\* and the array still holds exactly the rows placed before it
RejectionFrameWitness ==
    /\ pc = "not_inserted"
    /\ N >= 5
    /\ DOMAIN rlt_wrk # {}
    /\ rlt_value + Min(PlacedRowCols) >= Min(unused_array_indices) + 2
    /\ \E c1, c2 \in PlacedRowCols :
          /\ c1 < c2
          /\ (c1 + rlt_value - 1) % N \in unused_array_indices
          /\ (c2 + rlt_value - 1) % N \notin unused_array_indices
    /\ { array[p + 1] : p \in Written } = PlacedCells

====
